---- MODULE Spec2Model ----
(***************************************************************************)
(* Order lifecycle and delivery pricing of the shawarma ordering platform: *)
(* the order routes, the payment routes, the delivery-zone routes and the  *)
(* client notification list, as state machines over the record stores.     *)
(***************************************************************************)
EXTENDS Integers, Sequences, FiniteSets, TLC

VARIABLES
    products,       \* Product collection: product id -> document
    zones,          \* DeliveryZone collection, in stored (natural) order
    orders,         \* Order collection, in insertion order; _id = position
    now,            \* Date.now() of the server, in milliseconds
    last,           \* the last request served and its response
    user,           \* the session user of the client (useAuth)
    notifications,  \* the committed React state of NotificationProvider
    closure,        \* the list the current render's addNotification reads
    updates,        \* state updaters queued by setNotifications, not yet applied
    storage,        \* localStorage: user id -> the notification list saved under its key
    sync,           \* the SyncService singleton: config, timer, lastOrdersHash
    fetches,        \* order fetches of the client that have not returned yet
    clientOrders,   \* the orders state of DataProvider
    lastPoll,       \* the last poll applied to clientOrders and the events it raised
    previousOrders, \* previousOrdersRef of useOrderNotifications
    creating,       \* POST /api/orders calls suspended at an await
    checkout        \* the cart and the outcome of CheckoutModal.handleSubmit

serverVars == <<products, zones, orders, last>>
clientVars == <<user, notifications, closure, updates>>
restVars == <<storage, sync, fetches, clientOrders, lastPoll, previousOrders, creating, checkout>>
vars == <<products, zones, orders, now, last, user, notifications, closure, updates,
          storage, sync, fetches, clientOrders, lastPoll, previousOrders, creating, checkout>>

(***************************************************************************)
(* Bounds of the model                                                     *)
(***************************************************************************)
MaxOrders == 1          \* orders persisted in the lifecycle specification
MaxItems == 2           \* items of a cart
MaxToppings == 2        \* topping ids selected in one cart
MaxEntries == 2         \* neighborhood entries of one zone
MaxTicks == 2           \* clock advances
MaxNotifications == 3   \* notifications accepted by one session
MaxDays == 2            \* calendar days the clock passes through
MaxTimers == 2          \* intervals armed by one session
MaxFetches == 2         \* requests of one session on their way
MaxQueued == 1          \* state updaters queued between two renders
MaxCreating == 2        \* POST /api/orders calls suspended at once
MaxPlaced == 2          \* orders placed by concurrent calls
MaxErrors == 1          \* fetches of one session that fail
MaxListed == 3          \* orders of the collection the list routes read
TickMs == 30000         \* one clock advance, in milliseconds

(***************************************************************************)
(* Small recursive helpers                                                 *)
(***************************************************************************)
RECURSIVE SeqsUpTo(_, _)
SeqsUpTo(S, n) ==
    IF n = 0 THEN {<<>>}
    ELSE LET shorter == SeqsUpTo(S, n - 1)
         IN  shorter \cup {Append(s, x) : s \in shorter, x \in S}

SubsetsUpTo(S, n) == {T \in SUBSET S : Cardinality(T) <= n}

Null == <<>>            \* an unset optional field
Some(x) == <<x>>

(***************************************************************************)
(* Sessions: the bearer token of a request                                 *)
(***************************************************************************)
NoToken  == [userId |-> "-", role |-> "none"]
Customer1 == [userId |-> "u1", role |-> "customer"]
Customer2 == [userId |-> "u2", role |-> "customer"]
Admin    == [userId |-> "a1", role |-> "admin"]
Tokens   == {NoToken, Customer1, Customer2, Admin}
UserIds  == {"u1", "u2", "a1"}

\* middleware auth: 0 passes, otherwise the HTTP status of the refusal
auth(token) == IF token.role = "none" THEN 401 ELSE 0

\* middleware adminAuth
adminAuth(token) ==
    IF token.role = "none" THEN 401
    ELSE IF token.role # "admin" THEN 403
    ELSE 0

(***************************************************************************)
(* Catalog                                                                 *)
(***************************************************************************)
ProductIds == {"P1", "P2"}
MissingProductId == "P9"

SeedProduct(id, avail) ==
    IF id = "P1"
    THEN [name |-> "Shawarma Classique", basePrice |-> 2000, available |-> avail,
          sizeVariations |-> << [size |-> "small",  price |-> 0,    available |-> TRUE],
                                [size |-> "medium", price |-> 500,  available |-> TRUE],
                                [size |-> "large",  price |-> 1000, available |-> FALSE] >>,
          toppings |-> << [id |-> "T1", name |-> "Tomates",   price |-> 100, available |-> TRUE],
                          [id |-> "T2", name |-> "Sauce Ail", price |-> 150, available |-> TRUE],
                          [id |-> "T3", name |-> "Fromage",   price |-> 200, available |-> FALSE] >>]
    ELSE [name |-> "Falafel", basePrice |-> 1500, available |-> avail,
          sizeVariations |-> << [size |-> "small",  price |-> 0,   available |-> TRUE],
                                [size |-> "medium", price |-> 300, available |-> FALSE] >>,
          toppings |-> << [id |-> "T1", name |-> "Tomates", price |-> 100, available |-> TRUE] >>]

Catalogs == {[p \in ProductIds |-> SeedProduct(p, a[p])] : a \in [ProductIds -> BOOLEAN]}
SeedCatalog == [p \in ProductIds |-> SeedProduct(p, p = "P1")]

(***************************************************************************)
(* Delivery zones                                                          *)
(***************************************************************************)
Cities == {"Douala", "Yaounde"}
NeighborhoodNames == {"Akwa", "Bonanjo"}
Neighborhoods == [name : NeighborhoodNames, city : Cities, available : BOOLEAN]

ZoneX(cs, ns, avail) ==
    [name |-> "X", cities |-> cs, neighborhoods |-> ns,
     deliveryFee |-> 500, estimatedTime |-> 30, available |-> avail]
ZoneY(cs, ns, avail) ==
    [name |-> "Y", cities |-> cs, neighborhoods |-> ns,
     deliveryFee |-> 1000, estimatedTime |-> 45, available |-> avail]

\* the zone contents an administrator can store: at least one city, and
\* neighborhood entries of the zone's own cities
ZoneContents ==
    {c \in [cities : SUBSET Cities \ {{}},
            neighborhoods : SubsetsUpTo(Neighborhoods, MaxEntries),
            available : BOOLEAN] :
        \A n \in c.neighborhoods : n.city \in c.cities}

\* every pair of contents, as the first and the second stored zone
ZoneTables ==
    {<<ZoneX(x.cities, x.neighborhoods, x.available),
       ZoneY(y.cities, y.neighborhoods, y.available)>> : x \in ZoneContents, y \in ZoneContents}

\* zone X covers Douala/Akwa, zone Y covers Douala/Bonanjo
SeedZones ==
    << ZoneX({"Douala"}, {[name |-> "Akwa", city |-> "Douala", available |-> TRUE]}, TRUE),
       ZoneY({"Douala"}, {[name |-> "Bonanjo", city |-> "Douala", available |-> TRUE]}, TRUE) >>

\* the query document of both fee lookups: every condition on the array
\* neighborhoods is matched by some element, each condition on its own
ZoneMatches(z, city, neighborhood) ==
    /\ z.available = TRUE
    /\ city \in z.cities
    /\ \E n \in z.neighborhoods : n.city = city
    /\ \E n \in z.neighborhoods : n.name = neighborhood
    /\ \E n \in z.neighborhoods : n.available = TRUE

\* DeliveryZone.findOne: position of the first stored zone that matches, 0 if none
FindZone(zs, city, neighborhood) ==
    LET hits == {i \in 1..Len(zs) : ZoneMatches(zs[i], city, neighborhood)}
    IN  IF hits = {} THEN 0 ELSE CHOOSE i \in hits : \A j \in hits : i <= j

\* GET /api/delivery-zones/cities: the cities of the available zones
ListCities(zs) == UNION {zs[i].cities : i \in {j \in DOMAIN zs : zs[j].available = TRUE}}

\* GET /api/delivery-zones/neighborhoods/:city: the names of the available
\* entries of the city in the available zones that list the city
ListNeighborhoods(zs, city) ==
    UNION {{n.name : n \in {m \in zs[i].neighborhoods : m.city = city /\ m.available}} :
              i \in {j \in DOMAIN zs : zs[j].available = TRUE /\ city \in zs[j].cities}}

(***************************************************************************)
(* Order assembly                                                          *)
(***************************************************************************)
\* Array.prototype.find on a sequence: position of the first element with P, 0 if none
FirstSize(product, size) ==
    LET hits == {i \in 1..Len(product.sizeVariations) : product.sizeVariations[i].size = size}
    IN  IF hits = {} THEN 0 ELSE CHOOSE i \in hits : \A j \in hits : i <= j

FirstTopping(product, toppingId) ==
    LET hits == {i \in 1..Len(product.toppings) : product.toppings[i].id = toppingId}
    IN  IF hits = {} THEN 0 ELSE CHOOSE i \in hits : \A j \in hits : i <= j

\* mutation: a topping of the product is charged whatever its availability flag
RECURSIVE ToppingsLoopIgnoresFlag(_, _, _)
ToppingsLoopIgnoresFlag(product, ids, acc) ==
    IF ids = <<>> THEN acc
    ELSE LET k == FirstTopping(product, Head(ids))
             t == product.toppings[k]
         IN  ToppingsLoopIgnoresFlag(product, Tail(ids),
                 IF k # 0
                 THEN [toppingsPrice |-> acc.toppingsPrice + t.price,
                       selectedToppings |-> Append(acc.selectedToppings,
                                                   [name |-> t.name, price |-> t.price])]
                 ELSE acc)

\* the loop over item.selectedToppings: accumulated price and captured toppings
RECURSIVE ToppingsLoop(_, _, _)
ToppingsLoop(product, ids, acc) ==
    IF ids = <<>> THEN acc
    ELSE LET k == FirstTopping(product, Head(ids))
             hit == k # 0 /\ product.toppings[k].available
             t == product.toppings[k]
         IN  ToppingsLoop(product, Tail(ids),
                 IF hit
                 THEN [toppingsPrice |-> acc.toppingsPrice + t.price,
                       selectedToppings |-> Append(acc.selectedToppings,
                                                   [name |-> t.name, price |-> t.price])]
                 ELSE acc)

\* mutation: the toppings are charged once, not per unit
ItemPriceToppingsOnce(product, sizeVariation, toppingsPrice, quantity) ==
    (product.basePrice + sizeVariation.price) * quantity + toppingsPrice

ItemPrice(product, sizeVariation, toppingsPrice, quantity) ==
    (product.basePrice + sizeVariation.price + toppingsPrice) * quantity

\* mutation: the availability of the product is not checked
ItemErrorIgnoresProductFlag(catalog, item) ==
    IF item.productId \notin DOMAIN catalog THEN "ProductNotFound"
    ELSE IF FirstSize(catalog[item.productId], item.size) = 0 THEN "SizeNotFound"
    ELSE IF ~catalog[item.productId].sizeVariations[
                 FirstSize(catalog[item.productId], item.size)].available
         THEN "SizeUnavailable"
    ELSE ""

\* the checks of one item, in order: "" when the item passes, otherwise the
\* error of the 400 response
ItemError(catalog, item) ==
    IF item.productId \notin DOMAIN catalog THEN "ProductNotFound"
    ELSE IF ~catalog[item.productId].available THEN "ProductUnavailable"
    ELSE IF FirstSize(catalog[item.productId], item.size) = 0 THEN "SizeNotFound"
    ELSE IF ~catalog[item.productId].sizeVariations[
                 FirstSize(catalog[item.productId], item.size)].available
         THEN "SizeUnavailable"
    ELSE ""

\* the loop over the cart: the first failing item ends it with its error
RECURSIVE ItemsLoop(_, _, _)
ItemsLoop(catalog, items, acc) ==
    IF items = <<>> THEN acc
    ELSE LET item == Head(items) IN
         IF ItemError(catalog, item) # ""
         THEN [acc EXCEPT !.error = ItemError(catalog, item)]
         ELSE LET product == catalog[item.productId]
                  sizeVariation == product.sizeVariations[FirstSize(product, item.size)]
                  tl == ToppingsLoop(product, item.selectedToppings,
                                     [toppingsPrice |-> 0, selectedToppings |-> <<>>])
                  itemPrice == ItemPrice(product, sizeVariation, tl.toppingsPrice, item.quantity)
              IN  ItemsLoop(catalog, Tail(items),
                      [error |-> acc.error,
                       subtotal |-> acc.subtotal + itemPrice,
                       orderItems |-> Append(acc.orderItems,
                           [product |-> item.productId,
                            productName |-> product.name,
                            productPrice |-> product.basePrice,
                            quantity |-> item.quantity,
                            size |-> item.size,
                            selectedToppings |-> tl.selectedToppings,
                            itemTotal |-> itemPrice])])

\* express-validator chain of POST /api/orders
ValidOrderBody(body) ==
    /\ Len(body.items) >= 1
    /\ \A i \in 1..Len(body.items) : body.items[i].quantity >= 1
    /\ body.paymentMethod \in {"stripe", "momo", "om", "cash"}

\* mutation: the fee is left out of the total
TotalWithoutFee(subtotal, deliveryFee) == subtotal

Total(subtotal, deliveryFee) == subtotal + deliveryFee

\* Date.now().toString().slice(-6)
NumberModulus == 1000000

\* mutation: an order paid in cash is stored as confirmed
NewOrderCashConfirmed(userId, count, orderItems, subtotal, deliveryFee, body) ==
    [userId |-> userId,
     orderNumber |-> <<now % NumberModulus, count + 1>>,
     items |-> orderItems,
     subtotal |-> subtotal,
     deliveryFee |-> deliveryFee,
     total |-> Total(subtotal, deliveryFee),
     status |-> IF body.paymentMethod = "cash" THEN "confirmed" ELSE "pending",
     paymentMethod |-> body.paymentMethod,
     paymentStatus |-> "pending",
     deliveryAddress |-> body.deliveryAddress,
     actualDeliveryTime |-> Null,
     createdAt |-> now,
     updatedAt |-> now]

\* new Order({...}) with the schema defaults and timestamps, and the order
\* number of the pre-validate hook for the given document count
NewOrder(userId, count, orderItems, subtotal, deliveryFee, body) ==
    [userId |-> userId,
     orderNumber |-> <<now % NumberModulus, count + 1>>,
     items |-> orderItems,
     subtotal |-> subtotal,
     deliveryFee |-> deliveryFee,
     total |-> Total(subtotal, deliveryFee),
     status |-> "pending",
     paymentMethod |-> body.paymentMethod,
     paymentStatus |-> "pending",
     deliveryAddress |-> body.deliveryAddress,
     actualDeliveryTime |-> Null,
     createdAt |-> now,
     updatedAt |-> now]

\* the handler of POST /api/orders: response and, on success, the saved order
CreateOrderResult(token, body) ==
    IF auth(token) # 0 THEN [code |-> auth(token), error |-> "Unauthorized"]
    ELSE IF ~ValidOrderBody(body) THEN [code |-> 400, error |-> "ValidationFailed"]
    ELSE LET loop == ItemsLoop(products, body.items,
                               [error |-> "", subtotal |-> 0, orderItems |-> <<>>])
         IN
         IF loop.error # "" THEN [code |-> 400, error |-> loop.error]
         ELSE LET z == FindZone(zones, body.deliveryAddress.city,
                                body.deliveryAddress.neighborhood)
         IN
         IF z = 0 THEN [code |-> 400, error |-> "NotServiceable"]
         ELSE [code |-> 201, error |-> "",
               zoneName |-> zones[z].name,
               order |-> NewOrder(token.userId, Len(orders), loop.orderItems,
                                  loop.subtotal, zones[z].deliveryFee, body)]

\* mutation: the order is saved before the zone lookup, with the schema's
\* default fee, and stays when the lookup fails
CreateOrderSavesBeforeZone(token, body) ==
    LET r == CreateOrderResult(token, body)
        loop == ItemsLoop(products, body.items,
                          [error |-> "", subtotal |-> 0, orderItems |-> <<>>])
    IN
    /\ orders' = IF r.code = 201 THEN Append(orders, r.order)
                 ELSE IF r.error = "NotServiceable"
                 THEN Append(orders, NewOrder(token.userId, Len(orders), loop.orderItems,
                                              loop.subtotal, 500, body))
                 ELSE orders
    /\ last' = [op |-> "createOrder", role |-> token.role, body |-> body,
                code |-> r.code, error |-> r.error,
                id |-> IF r.code = 201 THEN Len(orders) + 1 ELSE 0,
                zoneName |-> IF r.code = 201 THEN r.zoneName ELSE ""]
    /\ UNCHANGED <<products, zones, now>>
    /\ UNCHANGED clientVars
    /\ UNCHANGED restVars

CreateOrder(token, body) ==
    LET r == CreateOrderResult(token, body) IN
    /\ orders' = IF r.code = 201 THEN Append(orders, r.order) ELSE orders
    /\ last' = [op |-> "createOrder", role |-> token.role, body |-> body,
                code |-> r.code, error |-> r.error,
                id |-> IF r.code = 201 THEN Len(orders) + 1 ELSE 0,
                zoneName |-> IF r.code = 201 THEN r.zoneName ELSE ""]
    /\ UNCHANGED <<products, zones, now>>
    /\ UNCHANGED clientVars
    /\ UNCHANGED restVars

(***************************************************************************)
(* Order state machine and payment routes                                  *)
(***************************************************************************)
StatusEnum == {"pending", "confirmed", "preparing", "ready",
               "out_for_delivery", "delivered", "cancelled"}

\* mutation: every transition stamps the delivery time
UpdateDataAlwaysStamps(status) ==
    [status |-> status, actualDeliveryTime |-> Some(now)]

\* updateData of PUT /api/orders/:id/status
UpdateData(status) ==
    IF status = "delivered"
    THEN [status |-> status, actualDeliveryTime |-> Some(now)]
    ELSE [status |-> status]

\* mutation: the update also resets the delivery fee to the schema's default
ApplyUpdateResetsFee(order, update) ==
    [f \in DOMAIN order |-> IF f \in DOMAIN update THEN update[f]
                            ELSE IF f = "updatedAt" THEN now
                            ELSE IF f = "deliveryFee" THEN 500
                            ELSE order[f]]

\* findByIdAndUpdate / findOneAndUpdate: the named fields are set, the others
\* kept, and the schema's timestamps option stamps updatedAt
ApplyUpdate(order, update) ==
    [f \in DOMAIN order |-> IF f \in DOMAIN update THEN update[f]
                            ELSE IF f = "updatedAt" THEN now
                            ELSE order[f]]

Exists(id) == id \in 1..Len(orders)

Respond(op, token, code, id, status) ==
    [op |-> op, role |-> token.role, code |-> code, id |-> id, status |-> status,
     error |-> IF code = 401 THEN "Unauthorized"
               ELSE IF code = 403 THEN "Forbidden"
               ELSE IF code = 404 THEN "NotFound"
               ELSE IF code = 400 THEN "ValidationFailed"
               ELSE ""]

\* PUT /api/orders/:id/status
UpdateOrderStatus(token, id, status) ==
    LET code == IF adminAuth(token) # 0 THEN adminAuth(token)
                ELSE IF status \notin StatusEnum THEN 400
                ELSE IF ~Exists(id) THEN 404
                ELSE 200
    IN  /\ orders' = IF code = 200
                     THEN [orders EXCEPT ![id] = ApplyUpdate(@, UpdateData(status))]
                     ELSE orders
        /\ last' = Respond("updateStatus", token, code, id, status)
        /\ UNCHANGED <<products, zones, now>>
        /\ UNCHANGED clientVars
        /\ UNCHANGED restVars

\* POST /api/payments/stripe/confirm; intent is the provider's paymentIntent.status
StripeConfirm(token, id, intent) ==
    LET code == IF auth(token) # 0 THEN auth(token)
                ELSE IF intent # "succeeded" THEN 400
                ELSE IF ~(Exists(id) /\ orders[id].userId = token.userId) THEN 404
                ELSE 200
    IN  /\ orders' = IF code = 200
                     THEN [orders EXCEPT ![id] =
                              ApplyUpdate(@, [paymentStatus |-> "paid", status |-> "confirmed"])]
                     ELSE orders
        /\ last' = Respond("stripeConfirm", token, code, id, intent)
        /\ UNCHANGED <<products, zones, now>>
        /\ UNCHANGED clientVars
        /\ UNCHANGED restVars

\* POST /api/payments/momo/callback: no middleware; status of the provider's webhook
MomoCallback(token, id, status) ==
    LET code == IF status \notin {"success", "failed", "pending"} THEN 400
                ELSE IF status = "success" /\ ~Exists(id) THEN 404
                ELSE 200
    IN  /\ orders' = IF status = "success" /\ Exists(id)
                     THEN [orders EXCEPT ![id] =
                              ApplyUpdate(@, [paymentStatus |-> "paid", status |-> "confirmed"])]
                     ELSE IF status = "failed" /\ Exists(id)
                     THEN [orders EXCEPT ![id] = ApplyUpdate(@, [paymentStatus |-> "failed"])]
                     ELSE orders
        /\ last' = Respond("momoCallback", token, code, id, status)
        /\ UNCHANGED <<products, zones, now>>
        /\ UNCHANGED clientVars
        /\ UNCHANGED restVars

\* POST /api/payments/cash/confirm
CashConfirm(token, id) ==
    LET code == IF auth(token) # 0 THEN auth(token)
                ELSE IF ~(Exists(id) /\ orders[id].userId = token.userId) THEN 404
                ELSE 200
    IN  /\ orders' = IF code = 200
                     THEN [orders EXCEPT ![id] =
                              ApplyUpdate(@, [paymentStatus |-> "pending", status |-> "confirmed"])]
                     ELSE orders
        /\ last' = Respond("cashConfirm", token, code, id, "")
        /\ UNCHANGED <<products, zones, now>>
        /\ UNCHANGED clientVars
        /\ UNCHANGED restVars

(***************************************************************************)
(* Catalog and zone management                                             *)
(***************************************************************************)
\* Model.findByIdAndUpdate(id, req.body): the fields of the body are set
Patch(doc, body) == [f \in DOMAIN doc |-> IF f \in DOMAIN body THEN body[f] ELSE doc[f]]

\* PUT /api/products/:id
UpdateProduct(token, id, body) ==
    LET code == IF adminAuth(token) # 0 THEN adminAuth(token)
                ELSE IF id \notin DOMAIN products THEN 404
                ELSE 200
    IN  /\ products' = IF code = 200 THEN [products EXCEPT ![id] = Patch(@, body)]
                       ELSE products
        /\ last' = Respond("updateProduct", token, code, 0, "")
        /\ UNCHANGED <<zones, orders, now>>
        /\ UNCHANGED clientVars
        /\ UNCHANGED restVars

\* DELETE /api/products/:id
DeleteProduct(token, id) ==
    LET code == IF adminAuth(token) # 0 THEN adminAuth(token)
                ELSE IF id \notin DOMAIN products THEN 404
                ELSE 200
    IN  /\ products' = IF code = 200
                       THEN [p \in DOMAIN products \ {id} |-> products[p]]
                       ELSE products
        /\ last' = Respond("deleteProduct", token, code, 0, "")
        /\ UNCHANGED <<zones, orders, now>>
        /\ UNCHANGED clientVars
        /\ UNCHANGED restVars

\* PUT /api/delivery-zones/:id; the id of a zone is its name
UpdateZone(token, name, body) ==
    LET code == IF adminAuth(token) # 0 THEN adminAuth(token)
                ELSE IF \A k \in DOMAIN zones : zones[k].name # name THEN 404
                ELSE 200
    IN  /\ zones' = IF code = 200
                    THEN [k \in DOMAIN zones |-> IF zones[k].name = name
                                                 THEN Patch(zones[k], body) ELSE zones[k]]
                    ELSE zones
        /\ last' = Respond("updateZone", token, code, 0, "")
        /\ UNCHANGED <<products, orders, now>>
        /\ UNCHANGED clientVars
        /\ UNCHANGED restVars

\* DELETE /api/delivery-zones/:id
DeleteZone(token, name) ==
    LET code == IF adminAuth(token) # 0 THEN adminAuth(token)
                ELSE IF \A k \in DOMAIN zones : zones[k].name # name THEN 404
                ELSE 200
    IN  /\ zones' = IF code = 200 THEN SelectSeq(zones, LAMBDA z : z.name # name)
                    ELSE zones
        /\ last' = Respond("deleteZone", token, code, 0, "")
        /\ UNCHANGED <<products, orders, now>>
        /\ UNCHANGED clientVars
        /\ UNCHANGED restVars

(***************************************************************************)
(* Zone resolver endpoint                                                  *)
(***************************************************************************)
\* POST /api/delivery-zones/calculate-fee
CalculateFee(city, neighborhood) ==
    LET z == FindZone(zones, city, neighborhood) IN
    /\ last' = IF city = "" \/ neighborhood = ""
               THEN [op |-> "calculateFee", city |-> city, neighborhood |-> neighborhood,
                     code |-> 400, error |-> "ValidationFailed",
                     deliveryFee |-> 0, zoneName |-> ""]
               ELSE IF z = 0
               THEN [op |-> "calculateFee", city |-> city, neighborhood |-> neighborhood,
                     code |-> 404, error |-> "NotServiceable",
                     deliveryFee |-> 0, zoneName |-> ""]
               ELSE [op |-> "calculateFee", city |-> city, neighborhood |-> neighborhood,
                     code |-> 200, error |-> "",
                     deliveryFee |-> zones[z].deliveryFee, zoneName |-> zones[z].name]
    /\ UNCHANGED <<products, zones, orders, now>>
    /\ UNCHANGED clientVars
    /\ UNCHANGED restVars

\* the two listing endpoints, with the list of the response recorded
GetCities ==
    /\ last' = [op |-> "listCities", role |-> "none", code |-> 200, error |-> "", id |-> 0,
                list |-> ListCities(zones)]
    /\ UNCHANGED <<products, zones, orders, now>>
    /\ UNCHANGED clientVars
    /\ UNCHANGED restVars

GetNeighborhoods(city) ==
    /\ last' = [op |-> "listNeighborhoods", role |-> "none", code |-> 200, error |-> "",
                id |-> 0, city |-> city, list |-> ListNeighborhoods(zones, city)]
    /\ UNCHANGED <<products, zones, orders, now>>
    /\ UNCHANGED clientVars
    /\ UNCHANGED restVars

\* time passes: Date.now() of the server and of the client
Tick ==
    /\ now < MaxTicks * TickMs
    /\ now' = now + TickMs
    /\ UNCHANGED serverVars
    /\ UNCHANGED clientVars
    /\ UNCHANGED restVars

(***************************************************************************)
(* Notification dispatcher of the client                                   *)
(***************************************************************************)
DedupWindowMs == 60000

\* an absent optional field of a notification is the empty string
Absent == ""
NoOrderNumber == <<>>

\* mutation: a notification addressed to a role is shown to every role
ShouldShowIgnoresRole(u, data) ==
    \/ data.targetRole \in {Absent, "all", "admin", "customer"}
    \/ data.userId # Absent /\ data.userId = u.userId

\* shouldShow of addNotification
ShouldShow(u, data) ==
    LET targetRole == IF data.targetRole = Absent THEN "all" ELSE data.targetRole IN
    \/ targetRole = "all"
    \/ targetRole = "admin" /\ u.role = "admin"
    \/ targetRole = "customer" /\ u.role = "customer"
    \/ data.userId # Absent /\ data.userId = u.userId

\* isDuplicate of addNotification, over the list the function closes over
IsDuplicate(list, data, t) ==
    \E i \in DOMAIN list :
        /\ list[i].orderNumber = data.orderNumber
        /\ list[i].type = data.type
        /\ list[i].createdAt > t - DedupWindowMs

\* the notification built from the data of a call at time t; session records
\* the user whose session accepted it
NewNotification(data, t) ==
    [type |-> data.type, orderNumber |-> data.orderNumber, status |-> data.status,
     targetRole |-> data.targetRole, userId |-> data.userId, priority |-> data.priority,
     id |-> t, isRead |-> FALSE, createdAt |-> t, session |-> user.userId]

\* addNotification on the queue ups: the checks read the render's list, the
\* insertion is queued
addNotification(ups, data) ==
    IF /\ user.role # "none"
       /\ ShouldShow(user, data)
       /\ ~IsDuplicate(closure, data, now)
    THEN Append(ups, [kind |-> "prepend", n |-> NewNotification(data, now)])
    ELSE ups

AddNotification(data) ==
    /\ updates' = addNotification(updates, data)
    /\ UNCHANGED <<user, notifications, closure, now>>
    /\ UNCHANGED serverVars
    /\ UNCHANGED restVars

\* addNotification called by a component, with the call and its outcome
\* recorded
Dispatch(data) ==
    /\ updates' = addNotification(updates, data)
    /\ last' = [op |-> "addNotification", role |-> user.role, code |-> 0, error |-> "",
                id |-> 0, data |-> data, at |-> now,
                accepted |-> addNotification(updates, data) # updates]
    /\ UNCHANGED <<products, zones, orders, now, user, notifications, closure>>
    /\ UNCHANGED restVars

DayMs == 86400000
NotificationCap == 50

\* the calendar day of a time: setHours(0, 0, 0, 0)
Day(t) == t \div DayMs

SameDay(list, t) == SelectSeq(list, LAMBDA n : Day(n.createdAt) = Day(t))

\* one queued updater applied to the previous state
ApplyUpdate1(prev, u) ==
    IF u.kind = "prepend" THEN <<u.n>> \o prev
    ELSE IF u.kind = "set" THEN u.value
    ELSE IF u.kind = "clear" THEN <<>>
    ELSE IF u.kind = "markAsRead"
    THEN [k \in DOMAIN prev |-> IF prev[k].id = u.id THEN [prev[k] EXCEPT !.isRead = TRUE]
                                ELSE prev[k]]
    ELSE IF u.kind = "markAllAsRead"
    THEN [k \in DOMAIN prev |-> [prev[k] EXCEPT !.isRead = TRUE]]
    ELSE IF u.kind = "delete" THEN SelectSeq(prev, LAMBDA n : n.id # u.id)
    ELSE IF u.kind = "sweep" THEN SameDay(prev, now)
    ELSE prev

RECURSIVE ApplyUpdates(_, _)
ApplyUpdates(prev, us) ==
    IF us = <<>> THEN prev ELSE ApplyUpdates(ApplyUpdate1(prev, Head(us)), Tail(us))

\* the save effect for list under session user u: a non-empty list of an
\* authenticated user is written under the user's key
Save(store, u, list) ==
    IF u.role # "none" /\ list # <<>> THEN [store EXCEPT ![u.userId] = list] ELSE store

\* React renders the provider: the queued updaters run in order, the new
\* render's addNotification closes over the new list, and the save effect runs
Render ==
    /\ updates # <<>>
    /\ notifications' = ApplyUpdates(notifications, updates)
    /\ closure' = ApplyUpdates(notifications, updates)
    /\ updates' = <<>>
    /\ storage' = Save(storage, user, ApplyUpdates(notifications, updates))
    /\ UNCHANGED <<user, now>>
    /\ UNCHANGED serverVars
    /\ UNCHANGED <<sync, fetches, clientOrders, lastPoll, previousOrders, creating, checkout>>

notifFrame ==
    /\ UNCHANGED <<user, notifications, closure, now>>
    /\ UNCHANGED serverVars
    /\ UNCHANGED restVars

\* what the load effect keeps of a saved list at time t: the entries of the
\* day, at most fifty of them
Loaded(saved, t) ==
    SubSeq(SameDay(saved, t), 1,
           IF Len(SameDay(saved, t)) < NotificationCap THEN Len(SameDay(saved, t))
           ELSE NotificationCap)

\* the load effect for session user u: the state update it queues
LoadEffect(store, u, t) ==
    IF u.role # "none" /\ store[u.userId] # <<>>
    THEN <<[kind |-> "set", value |-> Loaded(store[u.userId], t)]>>
    ELSE <<>>

\* the page is loaded with a signed-in user: the provider mounts with an empty
\* list and the load effect reads the saved list
Load ==
    /\ user.role # "none"
    /\ notifications' = <<>>
    /\ closure' = <<>>
    /\ updates' = LoadEffect(storage, user, now)
    /\ UNCHANGED <<user, now>>
    /\ UNCHANGED serverVars
    /\ UNCHANGED restVars

MarkAsRead(id) ==
    /\ updates' = Append(updates, [kind |-> "markAsRead", id |-> id])
    /\ notifFrame

MarkAllAsRead ==
    /\ updates' = Append(updates, [kind |-> "markAllAsRead"])
    /\ notifFrame

DeleteNotification(id) ==
    /\ updates' = Append(updates, [kind |-> "delete", id |-> id])
    /\ notifFrame

ClearAllNotifications ==
    /\ updates' = Append(updates, [kind |-> "clear"])
    /\ storage' = IF user.role # "none" THEN [storage EXCEPT ![user.userId] = <<>>]
                  ELSE storage
    /\ UNCHANGED <<user, notifications, closure, now>>
    /\ UNCHANGED serverVars
    /\ UNCHANGED <<sync, fetches, clientOrders, lastPoll, previousOrders, creating, checkout>>

\* the cleanup interval fires
Sweep ==
    /\ updates' = Append(updates, [kind |-> "sweep"])
    /\ notifFrame

\* midnight passes
NextDay ==
    /\ Day(now) < MaxDays
    /\ now' = (Day(now) + 1) * DayMs
    /\ UNCHANGED serverVars
    /\ UNCHANGED clientVars
    /\ UNCHANGED restVars

\* the number of the first order of the collection
OrderNumbers == {<<0, 1>>}
Sessions == {Customer1, Admin}

\* the notifications the call sites raise for a session user u
NotificationInputs(u) ==
    \* CheckoutModal.handleSubmit: to the customer, then to the staff (the
    \* staff notification is also what useOrderNotifications raises for a new order)
    {[type |-> "order_placed", orderNumber |-> n, status |-> Absent,
      targetRole |-> "customer", userId |-> u.userId, priority |-> "high"] : n \in OrderNumbers}
    \cup
    {[type |-> "order_placed", orderNumber |-> n, status |-> Absent,
      targetRole |-> "admin", userId |-> Absent, priority |-> "high"] : n \in OrderNumbers}
    \cup
    \* OrderManagement.updateOrderStatus: to the customer who placed the order
    {[type |-> "order_status_changed", orderNumber |-> n, status |-> st,
      targetRole |-> "customer", userId |-> owner,
      priority |-> IF st = "delivered" THEN "high" ELSE "medium"] :
        n \in OrderNumbers, st \in {"confirmed", "delivered"}, owner \in {"u1", "a1"}}
    \cup
    \* useOrderNotifications: a status change seen by the poller
    {[type |-> "order_status_changed", orderNumber |-> n, status |-> st,
      targetRole |-> u.role, userId |-> Absent, priority |-> "medium"] :
        n \in OrderNumbers, st \in {"confirmed", "delivered"}}

\* notifications that carry no order number
SystemInputs ==
    {[type |-> "system", orderNumber |-> NoOrderNumber, status |-> Absent,
      targetRole |-> Absent, userId |-> Absent, priority |-> p] : p \in {"low", "high"}}

(***************************************************************************)
(* Order list routes                                                       *)
(***************************************************************************)
CustomerPageLimit == 10
AdminPageLimit == 20

\* an order document as the client receives it; _id is the position in the
\* collection
DocOf(i, o) ==
    [id |-> i, userId |-> o.userId, orderNumber |-> o.orderNumber,
     status |-> o.status, total |-> o.total,
     createdAt |-> o.createdAt, updatedAt |-> o.updatedAt]

OrderDoc(i) == DocOf(i, orders[i])

\* Order.find(query).sort({createdAt: -1}): the matching ids, newest first
RECURSIVE FindSorted(_, _)
FindSorted(i, userIds) ==
    IF i = 0 THEN <<>>
    ELSE IF orders[i].userId \in userIds
         THEN <<OrderDoc(i)>> \o FindSorted(i - 1, userIds)
         ELSE FindSorted(i - 1, userIds)

\* .skip(skip).limit(limit)
SkipLimit(list, skip, limit) ==
    SubSeq(list, skip + 1, IF Len(list) < skip + limit THEN Len(list) ELSE skip + limit)

\* mutation: the query of GET /api/orders does not name the caller
GetOrdersOfEveryone(token) ==
    IF auth(token) # 0 THEN [code |-> auth(token), orders |-> <<>>]
    ELSE [code |-> 200,
          orders |-> SkipLimit(FindSorted(Len(orders), {orders[i].userId : i \in 1..Len(orders)}),
                               0, CustomerPageLimit)]

\* GET /api/orders with no query parameters: page 1 of the caller's orders
GetOrders(token) ==
    IF auth(token) # 0 THEN [code |-> auth(token), orders |-> <<>>]
    ELSE [code |-> 200,
          orders |-> SkipLimit(FindSorted(Len(orders), {token.userId}), 0, CustomerPageLimit)]

\* GET /api/orders/admin/all with no query parameters: page 1 of all orders
GetAllAdmin(token) ==
    IF adminAuth(token) # 0 THEN [code |-> adminAuth(token), orders |-> <<>>]
    ELSE [code |-> 200,
          orders |-> SkipLimit(FindSorted(Len(orders), {orders[i].userId : i \in 1..Len(orders)}),
                               0, AdminPageLimit)]

\* a request to one of the two list routes, with the caller and the response
\* recorded
ListResponse(op, token, r) ==
    [op |-> op, role |-> token.role, userId |-> token.userId, code |-> r.code,
     error |-> IF r.code = 200 THEN "" ELSE IF r.code = 401 THEN "Unauthorized" ELSE "Forbidden",
     id |-> 0, orders |-> r.orders]

ListOrders(token) ==
    /\ last' = ListResponse("getOrders", token, GetOrders(token))
    /\ UNCHANGED <<products, zones, orders, now>>
    /\ UNCHANGED clientVars
    /\ UNCHANGED restVars

ListAllOrders(token) ==
    /\ last' = ListResponse("getAllAdmin", token, GetAllAdmin(token))
    /\ UNCHANGED <<products, zones, orders, now>>
    /\ UNCHANGED clientVars
    /\ UNCHANGED restVars

(***************************************************************************)
(* Sync poller of the client                                               *)
(***************************************************************************)
DefaultInterval == 5000
AdminInterval == 30000
NoTimer == 0

\* the SyncService singleton after construction; timers is the set of
\* intervals armed in the runtime, created the number of intervals ever armed,
\* errors the value of lastOrdersHash at each polling error that was logged
SyncServiceInit ==
    [enabled |-> FALSE, interval |-> DefaultInterval, intervalId |-> NoTimer,
     lastOrdersHash |-> Null, timers |-> {}, created |-> 0, errors |-> <<>>]

\* SyncService.stop
stop(s) ==
    IF s.intervalId # NoTimer
    THEN [s EXCEPT !.timers = @ \ {s.intervalId}, !.intervalId = NoTimer, !.enabled = FALSE]
    ELSE s

\* a request of the client on its way; stopped records that stop() ran after
\* the request was sent
NewFetch(kind) ==
    [kind |-> kind, phase |-> "sent", code |-> 0, orders |-> <<>>, stopped |-> FALSE]

\* SyncService.syncOrders up to its await: the request is sent when enabled
syncOrders(s, fs) ==
    IF s.enabled THEN Append(fs, NewFetch("admin")) ELSE fs

\* setInterval
Arm(s) ==
    [s EXCEPT !.intervalId = s.created + 1, !.timers = @ \cup {s.created + 1},
              !.created = @ + 1]

\* stop() ran while the requests of fs were on their way
StopMarks(s, fs) ==
    IF s.intervalId # NoTimer
    THEN [i \in DOMAIN fs |-> [fs[i] EXCEPT !.stopped = TRUE]]
    ELSE fs

\* SyncService.start on service state s with requests fs on their way: the
\* config is merged, a running timer is stopped, the initial sync runs and the
\* interval is armed
start(s, fs, interval) ==
    LET configured == [s EXCEPT !.interval = interval, !.enabled = TRUE]
        cleared == IF configured.intervalId # NoTimer THEN stop(configured) ELSE configured
    IN  [service |-> Arm(cleared),
         fetches |-> syncOrders(cleared, StopMarks(configured, fs))]

\* SyncService.updateInterval
updateInterval(s, fs, interval) ==
    LET configured == [s EXCEPT !.interval = interval] IN
    IF configured.intervalId # NoTimer
    THEN start(stop(configured), StopMarks(configured, fs), interval)
    ELSE [service |-> configured, fetches |-> fs]

pollFrame ==
    /\ UNCHANGED serverVars
    /\ UNCHANGED clientVars
    /\ UNCHANGED <<now, storage, creating, checkout>>

Start(interval) ==
    /\ sync' = start(sync, fetches, interval).service
    /\ fetches' = start(sync, fetches, interval).fetches
    /\ UNCHANGED <<clientOrders, lastPoll, previousOrders>>
    /\ pollFrame

Stop ==
    /\ sync' = stop(sync)
    /\ fetches' = StopMarks(sync, fetches)
    /\ UNCHANGED <<clientOrders, lastPoll, previousOrders>>
    /\ pollFrame

UpdateInterval(interval) ==
    /\ sync' = updateInterval(sync, fetches, interval).service
    /\ fetches' = updateInterval(sync, fetches, interval).fetches
    /\ UNCHANGED <<clientOrders, lastPoll, previousOrders>>
    /\ pollFrame

\* an armed interval fires: the callback runs syncOrders
TimerFire(id) ==
    /\ id \in sync.timers
    /\ fetches' = syncOrders(sync, fetches)
    /\ UNCHANGED <<sync, clientOrders, lastPoll, previousOrders>>
    /\ pollFrame

\* the interval of the customer tracking effect fires: ordersAPI.getAll()
TrackingTick ==
    /\ user.role = "customer"
    /\ fetches' = Append(fetches, NewFetch("customer"))
    /\ UNCHANGED <<sync, clientOrders, lastPoll, previousOrders>>
    /\ pollFrame

\* the server answers request i of the session
ServeFetch(i) ==
    /\ i \in DOMAIN fetches
    /\ fetches[i].phase = "sent"
    /\ LET r == IF fetches[i].kind = "admin" THEN GetAllAdmin(user) ELSE GetOrders(user)
       IN  fetches' = [fetches EXCEPT ![i].phase = "answered", ![i].code = r.code,
                                      ![i].orders = r.orders]
    /\ UNCHANGED <<sync, clientOrders, lastPoll, previousOrders>>
    /\ pollFrame

Remove(seq, i) == SubSeq(seq, 1, i - 1) \o SubSeq(seq, i + 1, Len(seq))

\* JSON.stringify(orders.map(o => ({id, status, updatedAt})))
OrdersHash(list) ==
    Some([k \in DOMAIN list |-> <<list[k].id, list[k].status, list[k].updatedAt>>])

Find(list, id) == \E k \in DOMAIN list : list[k].id = id
Get(list, id) == list[CHOOSE k \in DOMAIN list : list[k].id = id]

\* the filters of the setOrders updaters
NewOrders(prevOrders, updatedOrders) ==
    {updatedOrders[k].id : k \in {j \in DOMAIN updatedOrders :
                                     ~Find(prevOrders, updatedOrders[j].id)}}

\* mutation: every order known before counts as changed
StatusChangesIgnoresStatus(prevOrders, updatedOrders) ==
    {updatedOrders[k].id : k \in {j \in DOMAIN updatedOrders :
                                     Find(prevOrders, updatedOrders[j].id)}}

StatusChanges(prevOrders, updatedOrders) ==
    {updatedOrders[k].id : k \in {j \in DOMAIN updatedOrders :
        /\ Find(prevOrders, updatedOrders[j].id)
        /\ Get(prevOrders, updatedOrders[j].id).status # updatedOrders[j].status}}

\* the toasts of onOrdersUpdate (staff) for one pair of lists
AdminEvents(prevOrders, updatedOrders) ==
    {[event |-> "new", id |-> id] : id \in NewOrders(prevOrders, updatedOrders)}
    \cup {[event |-> "status-changed", id |-> id] :
             id \in StatusChanges(prevOrders, updatedOrders)}

\* the toasts of the customer tracking interval for one pair of lists
CustomerEvents(prevOrders, updatedOrders) ==
    IF prevOrders = <<>> THEN {}
    ELSE {[event |-> "status-changed", id |-> id] :
             id \in StatusChanges(prevOrders, updatedOrders)}

\* the response of request i arrives at the session: the rest of syncOrders
\* (staff) or of the tracking callback (customer)
FetchReturn(i) ==
    /\ i \in DOMAIN fetches
    /\ fetches[i].phase = "answered"
    /\ fetches' = Remove(fetches, i)
    /\ LET f == fetches[i]
           changed == OrdersHash(f.orders) # sync.lastOrdersHash
       IN  IF f.code # 200
           THEN UNCHANGED <<sync, clientOrders, lastPoll>>
           ELSE IF f.kind = "admin"
           THEN /\ sync' = IF changed THEN [sync EXCEPT !.lastOrdersHash = OrdersHash(f.orders)]
                           ELSE sync
                /\ clientOrders' = IF changed THEN f.orders ELSE clientOrders
                /\ lastPoll' = IF changed
                               THEN [kind |-> "admin", prev |-> clientOrders, new |-> f.orders,
                                     stopped |-> f.stopped,
                                     events |-> AdminEvents(clientOrders, f.orders)]
                               ELSE lastPoll
           ELSE /\ clientOrders' = f.orders
                /\ lastPoll' = [kind |-> "customer", prev |-> clientOrders, new |-> f.orders,
                                stopped |-> f.stopped,
                                events |-> CustomerEvents(clientOrders, f.orders)]
                /\ UNCHANGED sync
    /\ UNCHANGED previousOrders
    /\ pollFrame

NoPoll == [kind |-> "none", prev |-> <<>>, new |-> <<>>, stopped |-> FALSE, events |-> {}]

NoCheckout == [phase |-> "idle", cart |-> <<>>, errorShown |-> FALSE, orderId |-> 0]

\* request i of the session fails: no response (code 0), a server error, or
\* 401 for a token that has expired
FailFetch(i, code) ==
    /\ i \in DOMAIN fetches
    /\ fetches[i].phase = "sent"
    /\ fetches' = [fetches EXCEPT ![i].phase = "failed", ![i].code = code]
    /\ UNCHANGED <<sync, clientOrders, lastPoll, previousOrders>>
    /\ pollFrame

\* mutation: the catch block also stops the poller
onFetchErrorStops(s) == stop([s EXCEPT !.errors = Append(@, s.lastOrdersHash)])

\* the catch block of syncOrders and of the tracking callback: the error is
\* logged
onFetchError(s) == [s EXCEPT !.errors = Append(@, s.lastOrdersHash)]

\* the failure of request i arrives at the session. The response interceptor
\* answers a 401 by removing the token and loading the page anew, which ends
\* the session; any other failure goes to the catch block of the caller
FetchError(i) ==
    /\ i \in DOMAIN fetches
    /\ fetches[i].phase = "failed"
    /\ IF fetches[i].code = 401
       THEN /\ user' = NoToken
            /\ notifications' = <<>>
            /\ closure' = <<>>
            /\ updates' = <<>>
            /\ sync' = SyncServiceInit
            /\ fetches' = <<>>
            /\ clientOrders' = <<>>
            /\ lastPoll' = NoPoll
            /\ previousOrders' = <<>>
            /\ checkout' = NoCheckout
       ELSE /\ fetches' = Remove(fetches, i)
            /\ sync' = onFetchError(sync)
            /\ UNCHANGED <<clientOrders, lastPoll, previousOrders, checkout>>
            /\ UNCHANGED clientVars
    /\ UNCHANGED <<now, storage, creating>>
    /\ UNCHANGED serverVars

(***************************************************************************)
(* Sessions                                                                *)
(***************************************************************************)
\* AuthContext.logout and the effects that follow the change of user: the
\* providers stay mounted and keep their state, the sync effect stops the
\* poller, and neither the load nor the save effect does anything
Logout ==
    /\ user.role # "none"
    /\ user' = NoToken
    /\ sync' = stop(sync)
    /\ fetches' = StopMarks(sync, fetches)
    /\ UNCHANGED <<notifications, closure, updates, now, storage>>
    /\ UNCHANGED <<clientOrders, lastPoll, previousOrders, creating, checkout>>
    /\ UNCHANGED serverVars

\* AuthContext.login as user u and the effects that follow: the load effect
\* reads the list saved under the key of u, then the save effect writes the
\* list in memory under that key; the sync effect starts the poller for staff
Login(u) ==
    /\ user.role = "none"
    /\ user' = u
    /\ updates' = updates \o LoadEffect(storage, u, now)
    /\ storage' = Save(storage, u, notifications)
    /\ sync' = IF u.role = "admin" THEN start(sync, fetches, AdminInterval).service
               ELSE stop(sync)
    /\ fetches' = IF u.role = "admin" THEN start(sync, fetches, AdminInterval).fetches
                  ELSE StopMarks(sync, fetches)
    /\ UNCHANGED <<notifications, closure, now>>
    /\ UNCHANGED <<clientOrders, lastPoll, previousOrders, creating, checkout>>
    /\ UNCHANGED serverVars

(***************************************************************************)
(* useOrderNotifications                                                   *)
(***************************************************************************)
PlacedCall(o) ==
    [type |-> "order_placed", orderNumber |-> o.orderNumber, status |-> Absent,
     targetRole |-> "admin", userId |-> Absent, priority |-> "high"]

ChangedCall(u, o) ==
    [type |-> "order_status_changed", orderNumber |-> o.orderNumber, status |-> o.status,
     targetRole |-> IF u.role = "admin" THEN "admin" ELSE "customer",
     userId |-> Absent, priority |-> "medium"]

\* the addNotification calls of one run of the effect, in the order made
HookCalls(u, prev, cur) ==
    LET placed == IF u.role = "admin"
                  THEN SelectSeq(cur, LAMBDA o : ~Find(prev, o.id))
                  ELSE <<>>
        changed == SelectSeq(cur, LAMBDA o : /\ Find(prev, o.id)
                                              /\ Get(prev, o.id).status # o.status)
    IN  [k \in DOMAIN placed |-> PlacedCall(placed[k])]
        \o [k \in DOMAIN changed |-> ChangedCall(u, changed[k])]

HookEvents(u, prev, cur) ==
    (IF u.role = "admin"
     THEN {[event |-> "new", id |-> id] : id \in NewOrders(prev, cur)}
     ELSE {})
    \cup {[event |-> "status-changed", id |-> id] : id \in StatusChanges(prev, cur)}

RECURSIVE addNotifications(_, _)
addNotifications(ups, calls) ==
    IF calls = <<>> THEN ups
    ELSE addNotifications(addNotification(ups, Head(calls)), Tail(calls))

\* the effect of useOrderNotifications runs after the orders of the session
\* changed
OrderNotificationsEffect ==
    /\ previousOrders # clientOrders
    /\ IF user.role = "none" \/ clientOrders = <<>>
       THEN UNCHANGED <<updates, previousOrders, lastPoll>>
       ELSE /\ updates' = addNotifications(updates,
                                           HookCalls(user, previousOrders, clientOrders))
            /\ previousOrders' = clientOrders
            /\ lastPoll' = [kind |-> "hook", prev |-> previousOrders, new |-> clientOrders,
                            stopped |-> FALSE,
                            events |-> HookEvents(user, previousOrders, clientOrders)]
    /\ UNCHANGED <<user, notifications, closure, now>>
    /\ UNCHANGED serverVars
    /\ UNCHANGED <<storage, sync, fetches, clientOrders, creating, checkout>>

(***************************************************************************)
(* Checkout                                                                *)
(***************************************************************************)
\* the two notifications of handleSubmit for the created order
CheckoutCalls(u, o) ==
    <<[type |-> "order_placed", orderNumber |-> o.orderNumber, status |-> Absent,
       targetRole |-> "customer", userId |-> u.userId, priority |-> "high"],
      [type |-> "order_placed", orderNumber |-> o.orderNumber, status |-> Absent,
       targetRole |-> "admin", userId |-> Absent, priority |-> "high"]>>

\* the k-th call is delivered (toast, tone, browser notification) when it is
\* accepted
Delivered(ups, call) == addNotification(ups, call) # ups

\* CheckoutModal.handleSubmit with the cart of body; failsAt names the call
\* whose delivery throws (0: none does)
Checkout(body, failsAt) ==
    LET r == CreateOrderResult(user, body)
        id == Len(orders) + 1
        calls == CheckoutCalls(user, r.order)
        ups1 == addNotification(updates, calls[1])
        thrown1 == failsAt = 1 /\ Delivered(updates, calls[1])
        ups2 == addNotification(ups1, calls[2])
        thrown2 == failsAt = 2 /\ Delivered(ups1, calls[2])
    IN
    /\ user.role # "none"
    /\ orders' = IF r.code = 201 THEN Append(orders, r.order) ELSE orders
    /\ last' = [op |-> "createOrder", role |-> user.role, body |-> body,
                code |-> r.code, error |-> r.error,
                id |-> IF r.code = 201 THEN id ELSE 0,
                zoneName |-> IF r.code = 201 THEN r.zoneName ELSE ""]
    /\ IF r.code # 201
       THEN /\ checkout' = [phase |-> "done", cart |-> body.items, errorShown |-> TRUE,
                            orderId |-> 0]
            /\ UNCHANGED <<updates, clientOrders>>
       ELSE /\ clientOrders' = <<DocOf(id, r.order)>> \o clientOrders
            /\ updates' = IF thrown1 THEN ups1 ELSE ups2
            /\ checkout' = [phase |-> "done",
                            cart |-> IF thrown1 \/ thrown2 THEN body.items ELSE <<>>,
                            errorShown |-> thrown1 \/ thrown2,
                            orderId |-> id]
    /\ UNCHANGED <<products, zones, now, user, notifications, closure>>
    /\ UNCHANGED <<storage, sync, fetches, lastPoll, previousOrders, creating>>

(***************************************************************************)
(* Concurrent POST /api/orders                                             *)
(***************************************************************************)
\* POST /api/orders up to the await of the pre-validate hook: the request is
\* validated, the order is assembled and the documents are counted
BeginCreate(token, body) ==
    LET r == CreateOrderResult(token, body) IN
    /\ IF r.code = 201
       THEN /\ creating' = Append(creating, [token |-> token, body |-> body,
                                             count |-> Len(orders), order |-> r.order,
                                             zoneName |-> r.zoneName])
            /\ UNCHANGED last
       ELSE /\ last' = [op |-> "createOrder", role |-> token.role, body |-> body,
                        code |-> r.code, error |-> r.error, id |-> 0, zoneName |-> ""]
            /\ UNCHANGED creating
    /\ UNCHANGED <<products, zones, orders, now>>
    /\ UNCHANGED clientVars
    /\ UNCHANGED <<storage, sync, fetches, clientOrders, lastPoll, previousOrders, checkout>>

\* the unique index of orderNumber refuses the insert
DuplicateKey(number) == \E i \in 1..Len(orders) : orders[i].orderNumber = number

\* the hook resumes: the number is built from the clock and the count read
\* before, and order.save() inserts the document or fails on the unique index
FinishCreate(i) ==
    /\ i \in DOMAIN creating
    /\ LET c == creating[i]
           order == [c.order EXCEPT !.orderNumber = <<now % NumberModulus, c.count + 1>>,
                                    !.createdAt = now, !.updatedAt = now]
           ok == ~DuplicateKey(order.orderNumber)
       IN  /\ orders' = IF ok THEN Append(orders, order) ELSE orders
           /\ last' = [op |-> "createOrder", role |-> c.token.role, body |-> c.body,
                       code |-> IF ok THEN 201 ELSE 500,
                       error |-> IF ok THEN "" ELSE "ServerError",
                       id |-> IF ok THEN Len(orders) + 1 ELSE 0,
                       zoneName |-> IF ok THEN c.zoneName ELSE ""]
    /\ creating' = Remove(creating, i)
    /\ UNCHANGED <<products, zones, now>>
    /\ UNCHANGED clientVars
    /\ UNCHANGED <<storage, sync, fetches, clientOrders, lastPoll, previousOrders, checkout>>

(***************************************************************************)
(* Requests                                                                *)
(***************************************************************************)
Addresses == [city : Cities, neighborhood : NeighborhoodNames]
AkwaAddress == [city |-> "Douala", neighborhood |-> "Akwa"]

ToppingIds == {"T1", "T2", "T3", "T9"}      \* T9 is on no product
Sizes == {"small", "medium", "large", "xl"} \* xl is a size of no product
Quantities == {1, 2}
PaymentInputs == {"stripe", "momo", "om", "cash", "paypal"}

Item(p, q, s, ts) == [productId |-> p, quantity |-> q, size |-> s, selectedToppings |-> ts]

ItemsWith(k) ==
    {Item(p, q, s, ts) : p \in ProductIds \cup {MissingProductId}, q \in Quantities,
                         s \in Sizes, ts \in SeqsUpTo(ToppingIds, k)}

\* carts of at most n items that select at most k toppings in all
RECURSIVE CartsUpTo(_, _)
CartsUpTo(n, k) ==
    IF n = 0 THEN {<<>>}
    ELSE {<<>>} \cup
         UNION {{<<item>> \o rest :
                    rest \in CartsUpTo(n - 1, k - Len(item.selectedToppings))} :
                item \in ItemsWith(k)}

Body(items, pm, addr) == [items |-> items, paymentMethod |-> pm, deliveryAddress |-> addr]

PlainCart == <<Item("P1", 1, "small", <<>>)>>

\* requests of the pricing specification: every cart at a serviceable address,
\* and one cart with every token, payment method and address
PricingRequests ==
    {<<Customer1, Body(c, "cash", AkwaAddress)>> : c \in CartsUpTo(MaxItems, MaxToppings)}
    \cup {<<t, Body(PlainCart, pm, a)>> : t \in Tokens, pm \in PaymentInputs, a \in Addresses}
    \cup {<<Customer1, Body(<<Item("P1", 0, "small", <<>>)>>, "cash", AkwaAddress)>>}

\* requests of the lifecycle specification: two carts that are accepted, and
\* carts that fail on each validation, at the first and at the second item
MediumCart == <<Item("P1", 2, "medium", <<"T1", "T3">>)>>
BonanjoAddress == [city |-> "Douala", neighborhood |-> "Bonanjo"]
FailingBodies ==
    { Body(<<Item("P2", 1, "small", <<>>)>>, "cash", AkwaAddress),
      Body(<<Item("P1", 1, "small", <<>>), Item("P1", 1, "large", <<>>)>>, "cash", AkwaAddress),
      Body(<<Item("P9", 1, "small", <<>>), Item("P1", 1, "small", <<>>)>>, "cash", AkwaAddress),
      Body(<<Item("P1", 1, "small", <<>>), Item("P1", 1, "xl", <<>>)>>, "cash", AkwaAddress),
      Body(PlainCart, "cash", [city |-> "Yaounde", neighborhood |-> "Akwa"]),
      Body(<<>>, "cash", AkwaAddress) }
CreateRequests ==
    {<<t, b>> : t \in {Customer1, Customer2},
                b \in {Body(PlainCart, "cash", AkwaAddress), Body(MediumCart, "momo", BonanjoAddress)}}
    \cup {<<Customer1, b>> : b \in FailingBodies}
    \cup {<<NoToken, Body(PlainCart, "cash", AkwaAddress)>>}

OrderIds == 1..MaxOrders
StatusInputs == StatusEnum \cup {"archived"}
StatusRequests ==
    {<<Admin, id, s>> : id \in OrderIds, s \in StatusInputs}
    \cup {<<t, id, s>> : t \in {NoToken, Customer1}, id \in OrderIds, s \in {"delivered", "cancelled"}}
StripeRequests ==
    {<<t, id, i>> : t \in {Customer1, Customer2}, id \in OrderIds, i \in {"succeeded", "processing"}}
    \cup {<<NoToken, id, "succeeded">> : id \in OrderIds}
CashRequests == {<<t, id>> : t \in {NoToken, Customer1, Customer2}, id \in OrderIds}

NoRequest == [op |-> "none", role |-> "none", code |-> 0, error |-> "", id |-> 0]

(***************************************************************************)
(* Specifications                                                          *)
(***************************************************************************)
\* no client is attached
NoSession ==
    /\ user = NoToken
    /\ notifications = <<>>
    /\ closure = <<>>
    /\ updates = <<>>

\* nothing of the client has run yet and no request is suspended
Idle ==
    /\ storage = [u \in UserIds |-> <<>>]
    /\ sync = SyncServiceInit
    /\ fetches = <<>>
    /\ clientOrders = <<>>
    /\ lastPoll = NoPoll
    /\ previousOrders = <<>>
    /\ creating = <<>>
    /\ checkout = NoCheckout

\* Order lifecycle: the order routes and the payment routes over a seeded store
Init ==
    /\ products = SeedCatalog
    /\ zones = SeedZones
    /\ orders = <<>>
    /\ now = 0
    /\ last = NoRequest
    /\ NoSession
    /\ Idle

Next ==
    \/ \E r \in CreateRequests :
          /\ Len(orders) < MaxOrders \/ CreateOrderResult(r[1], r[2]).code # 201
          /\ CreateOrder(r[1], r[2])
    \/ \E r \in StatusRequests : UpdateOrderStatus(r[1], r[2], r[3])
    \/ \E r \in StripeRequests : StripeConfirm(r[1], r[2], r[3])
    \/ \E id \in OrderIds, st \in {"success", "failed", "pending"} : MomoCallback(NoToken, id, st)
    \/ \E r \in CashRequests : CashConfirm(r[1], r[2])
    \/ Tick

Spec == Init /\ [][Next]_vars

\* edits of the catalog and of the zone table: a product is renamed and
\* repriced, its sizes and toppings are replaced, the fee of a zone is changed
ProductEdits ==
    { [name |-> "Shawarma Royal", basePrice |-> 2500],
      [sizeVariations |-> << [size |-> "small", price |-> 200, available |-> TRUE] >>,
       toppings |-> << [id |-> "T1", name |-> "Tomates", price |-> 300, available |-> TRUE] >>] }
ZoneEdits == { [deliveryFee |-> 700, estimatedTime |-> 60] }

\* History: orders are placed, paid and moved through their statuses while
\* the staff edits the catalog and the zone table
NextHistory ==
    \/ \E body \in {Body(PlainCart, "cash", AkwaAddress), Body(MediumCart, "momo", BonanjoAddress)} :
          /\ Len(orders) < MaxOrders
          /\ CreateOrder(Customer1, body)
    \/ \E st \in {"confirmed", "delivered", "cancelled"} : UpdateOrderStatus(Admin, 1, st)
    \/ StripeConfirm(Customer1, 1, "succeeded")
    \/ \E st \in {"success", "failed"} : MomoCallback(NoToken, 1, st)
    \/ CashConfirm(Customer1, 1)
    \/ \E body \in ProductEdits : UpdateProduct(Admin, "P1", body)
    \/ DeleteProduct(Admin, "P1")
    \/ \E body \in ZoneEdits : UpdateZone(Admin, "Y", body)
    \/ DeleteZone(Admin, "X")
    \/ Tick

SpecHistory == Init /\ [][NextHistory]_vars

\* Pricing: one order request served by a fresh store, against every catalog
InitPricing ==
    /\ products \in Catalogs
    /\ zones = SeedZones
    /\ orders = <<>>
    /\ now = 0
    /\ last = NoRequest
    /\ NoSession
    /\ Idle

NextPricing ==
    /\ last = NoRequest
    /\ \E r \in PricingRequests : CreateOrder(r[1], r[2])

SpecPricing == InitPricing /\ [][NextPricing]_vars

\* Zone resolution: one fee lookup served by a fresh store, against every zone table
InitZones ==
    /\ products = SeedCatalog
    /\ zones \in ZoneTables
    /\ orders = <<>>
    /\ now = 0
    /\ last = NoRequest
    /\ NoSession
    /\ Idle

NextZones ==
    \/ /\ last = NoRequest
       /\ \E c \in Cities \cup {""}, n \in NeighborhoodNames : CalculateFee(c, n)
    \/ /\ last = NoRequest
       /\ \E a \in Addresses : CreateOrder(Customer1, Body(PlainCart, "cash", a))
    \/ /\ last = NoRequest
       /\ GetCities
    \/ /\ last = NoRequest
       /\ \E c \in Cities : GetNeighborhoods(c)

SpecZones == InitZones /\ [][NextZones]_vars

\* Notifications: one signed-in session with an empty notification list
InitNotif ==
    /\ products = SeedCatalog
    /\ zones = SeedZones
    /\ orders = <<>>
    /\ now = 0
    /\ last = NoRequest
    /\ user \in Sessions
    /\ notifications = <<>>
    /\ closure = <<>>
    /\ updates = <<>>
    /\ Idle

NextNotif ==
    \/ /\ Len(notifications) + Len(updates) < MaxNotifications
       /\ \E data \in NotificationInputs(user) : AddNotification(data)
    \/ Render
    \/ Tick

SpecNotif == InitNotif /\ [][NextNotif]_vars

\* Dispatch: the components of one signed-in session call addNotification
NextDispatch ==
    \/ /\ Len(notifications) + Len(updates) < MaxNotifications
       /\ \E data \in NotificationInputs(user) \cup SystemInputs : Dispatch(data)
    \/ Render
    \/ Tick

SpecDispatch == InitNotif /\ [][NextDispatch]_vars

PlainBody == Body(PlainCart, "cash", AkwaAddress)

\* Polling: one signed-in session (staff or customer) polls the orders while
\* a customer places an order and the staff changes its status
InitSync ==
    /\ products = SeedCatalog
    /\ zones = SeedZones
    /\ orders = <<>>
    /\ now = 0
    /\ last = NoRequest
    /\ user \in Sessions
    /\ notifications = <<>>
    /\ closure = <<>>
    /\ updates = <<>>
    /\ Idle

NextSync ==
    \/ /\ user.role = "admin"
       /\ sync.created < MaxTimers
       /\ Len(fetches) < MaxFetches
       /\ Start(AdminInterval)
    \/ Stop
    \/ /\ sync.created < MaxTimers
       /\ Len(fetches) < MaxFetches
       /\ UpdateInterval(DefaultInterval)
    \/ /\ Len(fetches) < MaxFetches
       /\ \E id \in sync.timers : TimerFire(id)
    \/ /\ Len(fetches) < MaxFetches
       /\ TrackingTick
    \/ \E i \in DOMAIN fetches : ServeFetch(i)
    \/ \E i \in DOMAIN fetches : FetchReturn(i)
    \/ /\ updates = <<>>
       /\ OrderNotificationsEffect
    \/ Render
    \/ /\ Len(orders) < MaxOrders
       /\ CreateOrder(Customer1, PlainBody)
    \/ \E id \in OrderIds, st \in {"confirmed", "preparing"} : UpdateOrderStatus(Admin, id, st)

SpecSync == InitSync /\ [][NextSync]_vars

\* the notifications of a checkout
PlacedInputs(u) == {data \in NotificationInputs(u) : data.type = "order_placed"}

\* Sessions: users sign in and out of one browser, one after the other, and
\* notifications are raised for the user signed in
NextSessions ==
    \/ \E u \in {Customer1, Customer2, Admin} :
          /\ updates = <<>>
          /\ sync.created < MaxTimers
          /\ Login(u)
    \/ /\ updates = <<>>
       /\ Logout
    \/ /\ Len(updates) < MaxQueued
       /\ \E data \in PlacedInputs(user) : AddNotification(data)
    \/ Render
    \/ /\ updates = <<>>
       /\ Load

SpecSessions == Init /\ [][NextSessions]_vars

FailedFetches(fs) == {i \in DOMAIN fs : fs[i].phase = "failed"}

\* Retry: the session polls while an order is placed and confirmed, and
\* requests of the session fail
NextRetry ==
    \/ /\ user.role = "admin"
       /\ sync.created < MaxTimers
       /\ Len(fetches) < MaxFetches
       /\ Start(AdminInterval)
    \/ /\ Len(fetches) < MaxFetches
       /\ \E id \in sync.timers : TimerFire(id)
    \/ /\ Len(fetches) < MaxFetches
       /\ TrackingTick
    \/ \E i \in DOMAIN fetches : ServeFetch(i)
    \/ \E i \in DOMAIN fetches, code \in {0, 500, 401} :
          /\ Len(sync.errors) + Cardinality(FailedFetches(fetches)) < MaxErrors
          /\ FailFetch(i, code)
    \/ \E i \in DOMAIN fetches : FetchReturn(i)
    \/ \E i \in DOMAIN fetches : FetchError(i)
    \/ /\ Len(orders) < MaxOrders
       /\ CreateOrder(Customer1, PlainBody)
    \/ UpdateOrderStatus(Admin, 1, "confirmed")

SpecRetry == InitSync /\ [][NextRetry]_vars

\* the collection after k orders of the first customer were placed
SeedOrders(k) ==
    LET loop == ItemsLoop(SeedCatalog, PlainCart,
                          [error |-> "", subtotal |-> 0, orderItems |-> <<>>])
    IN  [i \in 1..k |-> NewOrder(Customer1.userId, i - 1, loop.orderItems, loop.subtotal,
                                 SeedZones[1].deliveryFee, PlainBody)]

\* the collection after the users of owners placed one order each, in turn
OrdersOf(owners) ==
    LET loop == ItemsLoop(SeedCatalog, PlainCart,
                          [error |-> "", subtotal |-> 0, orderItems |-> <<>>])
    IN  [i \in DOMAIN owners |-> NewOrder(owners[i], i - 1, loop.orderItems, loop.subtotal,
                                          SeedZones[1].deliveryFee, PlainBody)]

\* Listing: every token asks both list routes, over every small collection of
\* orders of two customers
InitListing ==
    /\ products = SeedCatalog
    /\ zones = SeedZones
    /\ now = 0
    /\ orders \in {OrdersOf(w) : w \in SeqsUpTo({"u1", "u2"}, MaxListed)}
    /\ last = NoRequest
    /\ NoSession
    /\ Idle

NextListing ==
    \/ \E token \in Tokens : ListOrders(token)
    \/ \E token \in Tokens : ListAllOrders(token)

SpecListing == InitListing /\ [][NextListing]_vars

CollectionSizes ==
    {0, 1, CustomerPageLimit, CustomerPageLimit + 1, AdminPageLimit, AdminPageLimit + 1}

\* Paging: a session polls a collection that no longer changes
InitPaging ==
    /\ products = SeedCatalog
    /\ zones = SeedZones
    /\ now = 0
    /\ orders \in {SeedOrders(k) : k \in CollectionSizes}
    /\ last = NoRequest
    /\ user \in Sessions
    /\ notifications = <<>>
    /\ closure = <<>>
    /\ updates = <<>>
    /\ Idle

NextPaging ==
    \/ /\ user.role = "admin"
       /\ sync.created < MaxTimers
       /\ Len(fetches) < MaxFetches
       /\ Start(AdminInterval)
    \/ Stop
    \/ /\ Len(fetches) < MaxFetches
       /\ \E id \in sync.timers : TimerFire(id)
    \/ /\ Len(fetches) < MaxFetches
       /\ TrackingTick
    \/ \E i \in DOMAIN fetches : ServeFetch(i)
    \/ \E i \in DOMAIN fetches : FetchReturn(i)

SpecPaging == InitPaging /\ [][NextPaging]_vars

\* a saved notification of an earlier session, created at time t
Saved(t) ==
    [type |-> "system", orderNumber |-> NoOrderNumber, status |-> Absent,
     targetRole |-> "all", userId |-> Absent, priority |-> "low",
     id |-> t, isRead |-> FALSE, createdAt |-> t, session |-> user.userId]

\* k saved notifications created one second apart from time t on, newest first
SavedList(k, t) == [i \in 1..k |-> Saved(t + (k - i) * 1000)]

SessionStart == DayMs + 3600000

SavedLists ==
    {<<>>, SavedList(2, 0), SavedList(1, DayMs) \o SavedList(1, 0),
     SavedList(NotificationCap, DayMs), SavedList(NotificationCap + 2, DayMs)}

\* Retention: a session opens on the second day over the list an earlier
\* session saved
InitRetention ==
    /\ products = SeedCatalog
    /\ zones = SeedZones
    /\ orders = <<>>
    /\ now = SessionStart
    /\ last = NoRequest
    /\ user \in Sessions
    /\ notifications = <<>>
    /\ closure = <<>>
    /\ updates = <<>>
    /\ storage \in {[u \in UserIds |-> IF u = user.userId THEN list ELSE <<>>] :
                       list \in SavedLists}
    /\ sync = SyncServiceInit
    /\ fetches = <<>>
    /\ clientOrders = <<>>
    /\ lastPoll = NoPoll
    /\ previousOrders = <<>>
    /\ creating = <<>>
    /\ checkout = NoCheckout

FirstIds(list) == {list[k].id : k \in {j \in DOMAIN list : j <= 1}}

NextRetention ==
    \/ Load
    \/ /\ Len(updates) < MaxQueued
       /\ \E data \in PlacedInputs(user) : AddNotification(data)
    \/ /\ Len(updates) < MaxQueued
       /\ \E id \in FirstIds(notifications) : MarkAsRead(id)
    \/ /\ Len(updates) < MaxQueued
       /\ MarkAllAsRead
    \/ /\ Len(updates) < MaxQueued
       /\ \E id \in FirstIds(notifications) : DeleteNotification(id)
    \/ /\ Len(updates) < MaxQueued
       /\ ClearAllNotifications
    \/ /\ Len(updates) < MaxQueued
       /\ Sweep
    \/ Render
    \/ /\ updates = <<>>
       /\ NextDay

SpecRetention == InitRetention /\ [][NextRetention]_vars

\* Checkout: a signed-in user submits carts
InitCheckout ==
    /\ products = SeedCatalog
    /\ zones = SeedZones
    /\ orders = <<>>
    /\ now = 0
    /\ last = NoRequest
    /\ user \in Sessions
    /\ notifications = <<>>
    /\ closure = <<>>
    /\ updates = <<>>
    /\ Idle

CheckoutBodies == {PlainBody, Body(MediumCart, "momo", BonanjoAddress)} \cup FailingBodies

NextCheckout ==
    \/ \E body \in CheckoutBodies, failsAt \in 0..2 :
          /\ Len(orders) < MaxOrders \/ CreateOrderResult(user, body).code # 201
          /\ Checkout(body, failsAt)
    \/ Render
    \/ Tick

SpecCheckout == InitCheckout /\ [][NextCheckout]_vars

\* Order numbers: POST /api/orders calls of two customers overlap
NextNumbers ==
    \/ \E r \in CreateRequests :
          /\ Len(creating) < MaxCreating
          /\ Len(orders) + Len(creating) < MaxPlaced
          /\ BeginCreate(r[1], r[2])
    \/ \E i \in DOMAIN creating : FinishCreate(i)
    \/ Tick

SpecNumbers == Init /\ [][NextNumbers]_vars

(***************************************************************************)
(* Properties                                                              *)
(***************************************************************************)
Ids == 1..Len(orders)
Terminal == {"delivered", "cancelled"}

\* C1: every persisted order has total = subtotal + deliveryFee, at creation
\* and after any status update, payment confirmation or payment callback
C1_TotalIsSubtotalPlusFee ==
    \A i \in Ids : orders[i].total = orders[i].subtotal + orders[i].deliveryFee

\* an order that was paid and then delivered
C1_Witness ==
    \E i \in Ids : /\ orders[i].status = "delivered"
                   /\ orders[i].paymentStatus = "paid"
                   /\ orders[i].deliveryFee > 0

\* the price the specification gives to one item: base price, plus the delta
\* of the size variation named by the item, plus the price of every selected
\* topping id that names an available topping of the product, times quantity
SizeDelta(product, size) ==
    LET sv == CHOOSE v \in {product.sizeVariations[i] : i \in DOMAIN product.sizeVariations} :
                  v.size = size
    IN  sv.price

AvailableToppingPrice(product, toppingId) ==
    LET offered == {product.toppings[i] : i \in DOMAIN product.toppings}
        match == {t \in offered : t.id = toppingId /\ t.available}
    IN  IF match = {} THEN 0 ELSE (CHOOSE t \in match : TRUE).price

RECURSIVE SumOver(_, _)
SumOver(f, D) ==
    IF D = {} THEN 0
    ELSE LET d == CHOOSE x \in D : TRUE IN f[d] + SumOver(f, D \ {d})

ExpectedItemTotal(catalog, item) ==
    LET product == catalog[item.productId]
        toppingsSum == SumOver([j \in DOMAIN item.selectedToppings |->
                                   AvailableToppingPrice(product, item.selectedToppings[j])],
                               DOMAIN item.selectedToppings)
    IN  (product.basePrice + SizeDelta(product, item.size) + toppingsSum) * item.quantity

Accepted == last.op = "createOrder" /\ last.code = 201

\* C2: for every accepted cart the persisted subtotal is the sum over the items
\* of (base + size delta + available selected toppings) x quantity, and each
\* persisted itemTotal is its own term of that sum
C2_SubtotalIsSumOfItems ==
    Accepted =>
        LET cart == last.body.items
            saved == orders[last.id]
        IN  /\ Len(saved.items) = Len(cart)
            /\ \A k \in DOMAIN cart :
                   saved.items[k].itemTotal = ExpectedItemTotal(products, cart[k])
            /\ saved.subtotal =
                   SumOver([k \in DOMAIN cart |-> ExpectedItemTotal(products, cart[k])],
                           DOMAIN cart)

\* base 2000, size +500, toppings 100 and 150, quantity 2, zone fee 500:
\* subtotal 5500 and total 6000
C2_Witness ==
    /\ Accepted
    /\ last.body.items = <<Item("P1", 2, "medium", <<"T1", "T2">>)>>
    /\ orders[last.id].subtotal = 5500
    /\ orders[last.id].total = 6000

\* the address of the last fee lookup, of either route
FeeLookup == last.op = "calculateFee" \/ (last.op = "createOrder" /\ last.role # "none")
LookupCity == IF last.op = "calculateFee" THEN last.city ELSE last.body.deliveryAddress.city
LookupNeighborhood ==
    IF last.op = "calculateFee" THEN last.neighborhood
    ELSE last.body.deliveryAddress.neighborhood
LookupSucceeded == last.code \in {200, 201}

\* zone z holds a neighborhood entry for the pair, available or not
HasEntry(z, city, neighborhood) ==
    \E n \in z.neighborhoods : n.city = city /\ n.name = neighborhood

\* zone z serves the pair: the zone is available, lists the city and holds one
\* available entry for the pair
Serves(z, city, neighborhood) ==
    /\ z.available
    /\ city \in z.cities
    /\ \E n \in z.neighborhoods : n.city = city /\ n.name = neighborhood /\ n.available

\* C3: when a city belongs to zones A and B and the pair (city, neighborhood)
\* is an entry of A but not of B, both fee lookups answer with zone A
C3_ZoneOfThePairWins ==
    \A a, b \in DOMAIN zones :
        ( /\ FeeLookup
          /\ LookupCity # ""
          /\ a # b
          /\ LookupCity \in zones[b].cities
          /\ Serves(zones[a], LookupCity, LookupNeighborhood)
          /\ ~HasEntry(zones[b], LookupCity, LookupNeighborhood) )
        => (LookupSucceeded /\ last.zoneName = zones[a].name)

\* C4: both fee lookups fail with NotServiceable when no available zone lists
\* the city together with one available entry for the pair
C4_NotServiceableWithoutEntry ==
    ( /\ FeeLookup
      /\ LookupCity # ""
      /\ \A i \in DOMAIN zones : ~Serves(zones[i], LookupCity, LookupNeighborhood) )
    => last.error = "NotServiceable"

\* the chosen size of the item is a size variation of its product that is
\* flagged unavailable
SizeFlaggedUnavailable(catalog, item) ==
    /\ item.productId \in DOMAIN catalog
    /\ \E i \in DOMAIN catalog[item.productId].sizeVariations :
           /\ catalog[item.productId].sizeVariations[i].size = item.size
           /\ ~catalog[item.productId].sizeVariations[i].available

\* a well-formed, authenticated order request
OrderRequest ==
    last.op = "createOrder" /\ last.role # "none" /\ ValidOrderBody(last.body)

\* C5 as claimed: an item whose chosen size is flagged unavailable makes
\* createOrder fail with SizeUnavailable, whatever the product's own flag
C5_AlwaysSizeUnavailable ==
    ( /\ OrderRequest
      /\ SizeFlaggedUnavailable(products, last.body.items[1]) )
    => last.error = "SizeUnavailable"

\* C5 as amended: an item whose chosen size is flagged unavailable makes
\* createOrder fail and persist nothing; for the first item of the cart the
\* error is SizeUnavailable when its product is available and
\* ProductUnavailable when its product is flagged unavailable
C5_UnavailableSizeFails ==
    /\ ( /\ OrderRequest
         /\ \E k \in DOMAIN last.body.items :
                SizeFlaggedUnavailable(products, last.body.items[k]) )
       => (last.code = 400 /\ orders = <<>>)
    /\ ( /\ OrderRequest
         /\ SizeFlaggedUnavailable(products, last.body.items[1]) )
       => last.error = IF products[last.body.items[1].productId].available
                       THEN "SizeUnavailable"
                       ELSE "ProductUnavailable"

\* an unavailable size of a product that is itself flagged unavailable
C5_Witness ==
    /\ OrderRequest
    /\ SizeFlaggedUnavailable(products, last.body.items[1])
    /\ ~products[last.body.items[1].productId].available
    /\ last.error = "ProductUnavailable"

\* C6: a createOrder that fails leaves the order collection exactly as it was
C6_FailedCreateStoresNothing ==
    [][(last'.op = "createOrder" /\ last'.code # 201) => orders' = orders]_vars

\* a cart whose second item fails, refused while an earlier order is stored
C6_Witness ==
    /\ last.op = "createOrder"
    /\ last.error \in {"SizeUnavailable", "SizeNotFound"}
    /\ Len(last.body.items) = 2
    /\ ItemError(products, last.body.items[1]) = ""
    /\ Len(orders) = 1

\* C7: once delivered or cancelled, the status of an order never changes
C7_TerminalStatusStays ==
    [][\A i \in Ids : orders[i].status \in Terminal
                          => orders'[i].status = orders[i].status]_vars

\* C8: every change of an order's status is made by an admin request
C8_OnlyAdminChangesStatus ==
    [][(\E i \in Ids : orders'[i].status # orders[i].status)
           => last'.role = "admin"]_vars

\* C9: update-order-status stamps actualDeliveryTime with the current time when
\* the target status is delivered, and leaves it as it was for every other
\* target; a refused update changes no order
C9_DeliveryTimeOnlyOnDelivered ==
    [][(last'.op = "updateStatus" /\ now' = now) =>
          IF last'.code = 200
          THEN /\ last'.status = "delivered"
                    => orders'[last'.id].actualDeliveryTime = Some(now)
               /\ last'.status # "delivered"
                    => orders'[last'.id].actualDeliveryTime
                           = orders[last'.id].actualDeliveryTime
          ELSE orders' = orders]_vars

\* an order delivered earlier is cancelled later and keeps its delivery time
C9_Witness ==
    /\ last.op = "updateStatus"
    /\ last.code = 200
    /\ last.status = "cancelled"
    /\ orders[last.id].actualDeliveryTime # Null
    /\ orders[last.id].actualDeliveryTime # Some(now)

\* two entries of the list for the same order number and type, created
\* within the deduplication window of each other
DuplicateEntries(list) ==
    \E i, j \in DOMAIN list :
        /\ i < j
        /\ list[i].orderNumber # NoOrderNumber
        /\ list[i].orderNumber = list[j].orderNumber
        /\ list[i].type = list[j].type
        /\ list[i].createdAt - list[j].createdAt < DedupWindowMs
        /\ list[j].createdAt - list[i].createdAt < DedupWindowMs

\* C10: once the queued state updates are applied, the notification list holds
\* no two entries of the same order number and type raised within 60 seconds
C10_OneEntryPerEvent ==
    updates = <<>> => ~DuplicateEntries(notifications)

\* C11: the sync service never has more than one fetch on its way
C11_OneFetchInFlight ==
    Cardinality({i \in DOMAIN fetches : fetches[i].kind = "admin"}) <= 1

\* C12: a start() on a poller that is already running leaves exactly one timer
\* armed and the poller enabled, so that every later tick fetches
C12_StartIsIdempotent ==
    [][(sync.intervalId # NoTimer /\ sync'.created > sync.created)
           => (/\ Cardinality(sync'.timers) = 1
               /\ sync'.intervalId \in sync'.timers
               /\ sync'.enabled)]_vars

\* C13: the response of a fetch that was on its way when stop() ran is never
\* handed to onOrdersUpdate and never changes lastOrdersHash or the order list
C13_StoppedFetchDiscarded ==
    ~lastPoll.stopped

\* C14: the notification list of a user never holds more than fifty entries
C14_AtMostFiftyEntries ==
    Len(notifications) <= NotificationCap

\* C15: whenever the queued mutations and sweeps have been applied, the list
\* holds no notification created on a calendar day before the current one
C15_OnlyTodayAfterMutation ==
    [][(updates # <<>> /\ updates' = <<>>)
           => \A k \in DOMAIN notifications' :
                  Day(notifications'[k].createdAt) = Day(now')]_vars

\* C16: any two persisted orders have distinct order numbers, and no call with
\* a valid cart is refused: a refusal is an authentication or validation one
C16_DistinctNumbersNoFailure ==
    /\ \A i, j \in Ids : i # j => orders[i].orderNumber # orders[j].orderNumber
    /\ last.op = "createOrder" => last.code \in {201, 400, 401}

\* C19: once the order of a checkout is created, the checkout completes: no
\* order error is shown and the cart is cleared, whatever happens while its
\* notifications are delivered
C19_CheckoutCompletes ==
    (checkout.phase = "done" /\ checkout.orderId # 0)
        => (~checkout.errorShown /\ checkout.cart = <<>>)

\* the session has caught up: nothing is on its way or queued, the order list
\* is what the server holds for the user and the notification effect has run
Quiescent ==
    /\ fetches = <<>>
    /\ updates = <<>>
    /\ clientOrders = GetOrders(user).orders
    /\ previousOrders = clientOrders

StatusNotified(i, statuses) ==
    \E k \in DOMAIN notifications :
        /\ notifications[k].type = "order_status_changed"
        /\ notifications[k].orderNumber = orders[i].orderNumber
        /\ notifications[k].status \in statuses

\* C17: for an order of a customer whose session already showed one of its
\* status changes, once the session has caught up the list holds a
\* status-change notification for the status the order was moved to
C17_EveryTransitionNotified ==
    \A i \in Ids :
        ( /\ user.role = "customer"
          /\ orders[i].userId = user.userId
          /\ Quiescent
          /\ StatusNotified(i, StatusEnum) )
        => StatusNotified(i, {orders[i].status})

IdsOf(list) == {list[k].id : k \in DOMAIN list}

\* the orders of the collection the session is entitled to
Entitled ==
    IF user.role = "admin" THEN Ids
    ELSE {i \in Ids : orders[i].userId = user.userId}

\* C18: over a collection that no longer changes, once a poll has succeeded
\* the order list of the session is the whole collection (staff) or all the
\* orders of the customer
C18_ClientCatchesUp ==
    lastPoll.kind \in {"admin", "customer"} => IdsOf(clientOrders) = Entitled

\* the classification of the specification for a pair of snapshots
ExpectedNew(prev, new) == IdsOf(new) \ IdsOf(prev)

ExpectedChanged(prev, new) ==
    {id \in IdsOf(new) \cap IdsOf(prev) : Get(prev, id).status # Get(new, id).status}

Expected(prev, new, kinds) ==
    {[event |-> "new", id |-> id] : id \in IF "new" \in kinds
                                            THEN ExpectedNew(prev, new) ELSE {}}
    \cup {[event |-> "status-changed", id |-> id] : id \in ExpectedChanged(prev, new)}

\* C20 as claimed: every diff raises a new-order event for each id that appears
\* and a status-changed event for each id whose status differs, nothing else
C20_ExactlyNewAndChanged ==
    lastPoll.kind # "none"
        => lastPoll.events = Expected(lastPoll.prev, lastPoll.new, {"new"})

\* C20 as amended: a staff session raises exactly those events; a customer
\* session raises exactly the status-changed events and no new-order event
C20_EventsByRole ==
    /\ (lastPoll.kind = "admin" \/ (lastPoll.kind = "hook" /\ user.role = "admin"))
           => lastPoll.events = Expected(lastPoll.prev, lastPoll.new, {"new"})
    /\ (lastPoll.kind = "customer" \/ (lastPoll.kind = "hook" /\ user.role = "customer"))
           => lastPoll.events = Expected(lastPoll.prev, lastPoll.new, {})

\* a staff poll over a known order whose status was changed
C20_Witness ==
    /\ lastPoll.kind = "admin"
    /\ lastPoll.prev # <<>>
    /\ lastPoll.events = {[event |-> "status-changed", id |-> 1]}

\* C21: an order is stored by createOrder with status pending and payment
\* status pending, for each of the payment methods stripe, momo, om and cash
C21_CreatedPending ==
    [][(last'.op = "createOrder" /\ last'.code = 201)
           => (/\ Len(orders') = Len(orders) + 1
               /\ orders'[last'.id].paymentMethod = last'.body.paymentMethod
               /\ orders'[last'.id].status = "pending"
               /\ orders'[last'.id].paymentStatus = "pending")]_vars

\* an order paid in cash on delivery was stored
C21_Witness ==
    /\ Accepted
    /\ orders[last.id].paymentMethod = "cash"
    /\ orders[last.id].status = "pending"

\* the entries of the list and the entries queued for it
Recorded ==
    {notifications[k] : k \in DOMAIN notifications}
    \cup {updates[k].n : k \in {j \in DOMAIN updates : updates[j].kind = "prepend"}}

\* the notification is addressed to user u: to all (the default of a call that
\* names no role), to the role of u, or to u by user id
Targets(u, n) ==
    \/ n.targetRole \in {"all", Absent}
    \/ n.targetRole = u.role
    \/ n.userId # Absent /\ n.userId = u.userId

\* C22: addNotification accepts a notification only when it is addressed to
\* all, to the role of the session user or to the session user's id; one that
\* is addressed to nobody of the session is neither in the list, nor queued
\* for it, nor saved
C22_OnlyTargetedAdded ==
    /\ \A n \in Recorded : Targets(user, n)
    /\ \A u \in UserIds : \A k \in DOMAIN storage[u] : Targets(user, storage[u][k])
    /\ (last.op = "addNotification" /\ ~Targets(user, last.data)) => ~last.accepted

\* a call addressed to another role and user was refused by a session whose
\* list holds other notifications
C22_Witness ==
    /\ last.op = "addNotification"
    /\ ~Targets(user, last.data)
    /\ ~last.accepted
    /\ updates = <<>>
    /\ storage[user.userId] # <<>>

\* entry n reports the event of the call data: the same order, type and status
SameEvent(n, data) ==
    /\ n.orderNumber # NoOrderNumber
    /\ n.orderNumber = data.orderNumber
    /\ n.type = data.type
    /\ n.status = data.status

\* C28: a call addressed to the session is suppressed only as the repeat of
\* an event recorded in the preceding 60 seconds: the same order number, type
\* and status; a notification without order number is never suppressed
C28_OnlyRepeatsSuppressed ==
    (last.op = "addNotification" /\ Targets(user, last.data) /\ ~last.accepted)
        => \E n \in Recorded : /\ SameEvent(n, last.data)
                               /\ n.createdAt > last.at - DedupWindowMs

\* C23: GET /api/orders answers with orders of the caller only, whoever calls
\* and whatever the collection holds, and answers nobody without a session;
\* GET /api/orders/admin/all answers requests of the admin role and no other
C23_OwnOrdersOnly ==
    /\ last.op = "getOrders"
           => (/\ \A k \in DOMAIN last.orders : last.orders[k].userId = last.userId
               /\ last.role = "none" => (last.code = 401 /\ last.orders = <<>>))
    /\ last.op = "getAllAdmin"
           => (/\ last.code = 200 <=> last.role = "admin"
               /\ last.code # 200 => last.orders = <<>>)

\* a customer is answered with an order of his own while the collection also
\* holds an order of the other customer
C23_Witness ==
    /\ last.op = "getOrders"
    /\ last.userId = "u1"
    /\ last.orders # <<>>
    /\ \E i \in Ids : orders[i].userId = "u2"

\* the item names an available product and one of its available sizes
Orderable(catalog, item) ==
    /\ item.productId \in DOMAIN catalog
    /\ catalog[item.productId].available
    /\ \E i \in DOMAIN catalog[item.productId].sizeVariations :
           /\ catalog[item.productId].sizeVariations[i].size = item.size
           /\ catalog[item.productId].sizeVariations[i].available

\* the available toppings of the product
Offered(product) ==
    {t \in {product.toppings[j] : j \in DOMAIN product.toppings} : t.available}

\* the topping id is not on the product's list, or is flagged unavailable there
Dropped(product, toppingId) == \A t \in Offered(product) : t.id # toppingId

\* the selected ids that are not dropped, in the order selected, as captured
Captured(product, ids) ==
    LET kept == SelectSeq(ids, LAMBDA id : ~Dropped(product, id))
    IN  [j \in DOMAIN kept |->
            LET t == CHOOSE x \in Offered(product) : x.id = kept[j]
            IN  [name |-> t.name, price |-> t.price]]

\* C24: a cart of orderable items to a served address is accepted whatever
\* topping ids it selects; an id that is not on the product's own list, or is
\* flagged unavailable there, is left out of the captured toppings and of the
\* price of the item
C24_UnknownToppingsDropped ==
    ( /\ OrderRequest
      /\ \A k \in DOMAIN last.body.items : Orderable(products, last.body.items[k])
      /\ \E z \in DOMAIN zones : Serves(zones[z], last.body.deliveryAddress.city,
                                        last.body.deliveryAddress.neighborhood) )
    => /\ Accepted
       /\ \A k \in DOMAIN last.body.items :
              /\ orders[last.id].items[k].selectedToppings =
                     Captured(products[last.body.items[k].productId],
                              last.body.items[k].selectedToppings)
              /\ orders[last.id].items[k].itemTotal =
                     ExpectedItemTotal(products, last.body.items[k])

\* an accepted item that selects a topping flagged unavailable and an id that
\* is on no product: nothing is captured and the base price is charged
C24_Witness ==
    /\ Accepted
    /\ last.body.items[1].selectedToppings = <<"T3", "T9">>
    /\ orders[last.id].items[1].selectedToppings = <<>>
    /\ orders[last.id].items[1].itemTotal =
           orders[last.id].items[1].productPrice * orders[last.id].items[1].quantity

\* the fields of an order that the order assembler fixes, and the fields the
\* state machine moves
AssembledFields ==
    {"items", "subtotal", "deliveryFee", "total", "orderNumber", "userId", "deliveryAddress"}
StateFields == {"status", "paymentStatus", "actualDeliveryTime"}

Changed(i) == {f \in DOMAIN orders[i] : orders'[i][f] # orders[i][f]}

\* C25 as claimed: no step removes an order or changes an assembled field of
\* it, and a step changes nothing of a stored order but its status, payment
\* status and actualDeliveryTime
C25_OnlyStateFieldsChange ==
    [][/\ Len(orders') >= Len(orders)
       /\ \A i \in Ids : /\ Changed(i) \cap AssembledFields = {}
                         /\ Changed(i) \subseteq StateFields]_vars

\* C25 as amended: no step removes an order or changes an assembled field of
\* it, whether it is a status update, a payment confirmation or an edit of the
\* catalog or of the zone table; a step changes nothing of a stored order but
\* its status, payment status, actualDeliveryTime and update timestamp
C25_AssembledFieldsStay ==
    [][/\ Len(orders') >= Len(orders)
       /\ \A i \in Ids : /\ Changed(i) \cap AssembledFields = {}
                         /\ Changed(i) \subseteq StateFields \cup {"updatedAt"}]_vars

\* an order of the renamed and repriced product, placed in the zone whose fee
\* was changed later, was paid and delivered and keeps what was captured
C25_Witness ==
    /\ Len(orders) = 1
    /\ orders[1].status = "delivered"
    /\ orders[1].paymentStatus = "paid"
    /\ "P1" \in DOMAIN products
    /\ orders[1].items[1].productName # products["P1"].name
    /\ orders[1].items[1].productPrice # products["P1"].basePrice
    /\ \E k \in DOMAIN zones : /\ zones[k].name = "Y"
                               /\ orders[1].deliveryAddress.neighborhood = "Bonanjo"
                               /\ orders[1].deliveryFee # zones[k].deliveryFee

\* the step handles the failure of a fetch
FailureHandled == Cardinality(FailedFetches(fetches')) < Cardinality(FailedFetches(fetches))

\* the step leaves the session as it was, but for the request that ended and
\* the error that was logged: the poller keeps its hash, its timer and its
\* flag, the order list is not replaced and no update is delivered
SessionKept ==
    /\ user' = user
    /\ sync'.lastOrdersHash = sync.lastOrdersHash
    /\ sync'.enabled = sync.enabled
    /\ sync'.intervalId = sync.intervalId
    /\ sync'.timers = sync.timers
    /\ clientOrders' = clientOrders
    /\ lastPoll' = lastPoll
    /\ notifications' = notifications

\* the step hands the answer of a staff fetch that differs from the last one
\* to the order list
ChangeDelivered ==
    \A i \in DOMAIN fetches :
        ( /\ fetches[i].kind = "admin"
          /\ fetches[i].phase = "answered"
          /\ fetches[i].code = 200
          /\ fetches' = Remove(fetches, i)
          /\ OrdersHash(fetches[i].orders) # sync.lastOrdersHash )
        => clientOrders' = fetches[i].orders

\* C26 as claimed: handling the failure of a fetch, whatever the failure,
\* leaves the session as it was, and a poller that was running sends a fetch
\* on its next tick
C26_FailedFetchChangesNothing ==
    [][FailureHandled
           => (/\ SessionKept
               /\ sync.enabled => syncOrders(sync', fetches') # fetches')]_vars

\* C26 as amended: handling a failure other than a 401 leaves the session as
\* it was, a poller that was running sends a fetch on its next tick, and the
\* answer of a later fetch that differs from the last one replaces the order
\* list
C26_FailedFetchRetried ==
    [][/\ (FailureHandled /\ \A i \in FailedFetches(fetches) : fetches[i].code # 401)
           => (/\ SessionKept
               /\ sync.enabled => syncOrders(sync', fetches') # fetches')
       /\ ChangeDelivered]_vars

\* a polling error was logged, the poller is still armed, and a later answer
\* brought the order list up to date with the order confirmed meanwhile
C26_Witness ==
    /\ sync.errors # <<>>
    /\ sync.enabled
    /\ sync.timers # {}
    /\ sync.lastOrdersHash # sync.errors[1]
    /\ lastPoll.kind = "admin"
    /\ clientOrders # <<>>
    /\ clientOrders[1].status = "confirmed"
    /\ sync.errors[1] = OrdersHash(<<[clientOrders[1] EXCEPT !.status = "pending",
                                                              !.updatedAt = 0]>>)

\* C27: once the queued updates are applied, the list in memory holds only
\* notifications accepted in a session of the user signed in, and the list
\* saved under the key of a user holds only notifications accepted in a
\* session of that user
C27_NoForeignNotifications ==
    /\ (user.role # "none" /\ updates = <<>>)
           => \A k \in DOMAIN notifications : notifications[k].session = user.userId
    /\ \A u \in UserIds : \A k \in DOMAIN storage[u] : storage[u][k].session = u

\* C29: for every zone table, a fee lookup of either route succeeds exactly
\* when the city is one of the listed cities and the neighborhood is one of
\* the neighborhoods listed for that city
C29_FeeIffListed ==
    (FeeLookup /\ LookupCity # "")
        => (LookupSucceeded <=> (/\ LookupCity \in ListCities(zones)
                                 /\ LookupNeighborhood \in ListNeighborhoods(zones, LookupCity)))

\* the mutations of the notification list a user can make
Mutations == {"prepend", "markAsRead", "markAllAsRead", "delete", "clear"}

\* C30: when the list saved under an authenticated user's key equals the list
\* in memory and queued mutations of the list are rendered, the saved list
\* equals the list in memory again, so a reload shows the same entries
C30_PersistedEqualsMemory ==
    [][(/\ user.role # "none"
        /\ storage[user.userId] = notifications
        /\ updates # <<>>
        /\ \A k \in DOMAIN updates : updates[k].kind \in Mutations
        /\ updates' = <<>>
        /\ notifications' = ApplyUpdates(notifications, updates))
           => storage'[user.userId] = notifications']_vars

====
